---------------------------- MODULE Spec2Model ----------------------------
(***************************************************************************)
(* Model of the form-rendering code of suncity-form:                       *)
(*   - the interactive preview (PreviewPage: renderCharacterBoxes,         *)
(*     renderApplicantForm, renderApartmentForm),                          *)
(*   - the document backend lib/html-renderer.ts                           *)
(*     (renderCharacterBoxesHTML, renderSignatureFooterHTML,               *)
(*     renderApplicantFormHTML, renderApartmentFormHTML),                  *)
(*   - the second document-backend variant (suffix 2 in this module),      *)
(*   - the host viewers: PDFViewer and the admin dashboard,                *)
(*   - the route GET /api/applications/[id]/form-data.                     *)
(*                                                                         *)
(* A JavaScript string is a sequence of UTF-16 code units; a value that    *)
(* may be undefined is a record [def, s].  Lengths are in half-pixels so   *)
(* that the 1.5px border is the integer 3.                                 *)
(***************************************************************************)
EXTENDS Integers, Sequences, FiniteSets, TLC

VARIABLES
    value,          \* argument `value` of a character-box call
    boxCount,       \* argument `boxCount`: <<>> when not passed, else <<n>>
    boxWidth,       \* argument `boxWidth`: <<>> when not passed, else <<px>>
    rows,           \* per render path: <<>> or <<the row it returned>>
    formData,       \* the FormDataset handed to the renderers (data.formData)
    applicantCount, \* data.applicantCount of the stored record: <<>> or <<n>>
    out,            \* the last form render: [path, number, result], or NoOutput
    blocks,         \* per render path and page: <<>> or <<the block rendered from formData>>
    log,            \* the calls of the document renderers so far, each with its result
    numPages,       \* PreviewPage state: pages of the loaded template
    pdfUrl,         \* PreviewPage state: <<>> (null) or <<object URL of the fetched blob>>
    loading,        \* PreviewPage state
    error,          \* PreviewPage state: <<>> (null) or <<message>>
    server,         \* what the two fetches of the preview are answered with
    pdfDocument,    \* the template document element: "idle", "loading", "loaded", "failed"
    containerWidth, \* PDFViewer state: <<>> (undefined) or <<measured width in px>>
    viewerNumPages, \* PDFViewer state: pages of the loaded document
    selectedApplication, \* AdminDashboard state: <<>> (null) or <<id>>
    adminPdfUrl,    \* AdminDashboard state: <<>> (null) or <<object URL of a fetched PDF>>
    adminNumPages,  \* AdminDashboard state: pages the document element reported last
    adminPageNumber, \* AdminDashboard state pageNumber: the page shown
    fetches,        \* AdminDashboard: the PDF fetches of handleViewApplication, in click order
    adminDocument,  \* AdminDashboard: the file the document element holds and its load state
    db,             \* the stored application records, by id
    calls           \* the GET calls of the form-data route so far, with reads and responses

boxVars == <<value, boxCount, boxWidth, rows>>
formVars == <<formData, applicantCount, out>>
sessionVars == <<blocks, log>>
previewVars == <<numPages, pdfUrl, loading, error, server, pdfDocument>>
viewerVars == <<containerWidth, viewerNumPages>>
adminVars == <<selectedApplication, adminPdfUrl, adminNumPages, adminPageNumber, fetches, adminDocument>>
apiVars == <<db, calls>>
hostVars == <<viewerVars, adminVars, apiVars>>
vars == <<value, boxCount, boxWidth, rows, formData, applicantCount, out,
          blocks, log, numPages, pdfUrl, loading, error, server, pdfDocument,
          containerWidth, viewerNumPages,
          selectedApplication, adminPdfUrl, adminNumPages, adminPageNumber, fetches, adminDocument,
          db, calls>>

-----------------------------------------------------------------------------
(* Bounds of the model *)

MaxLen == 5
MaxBoxCount == 4
MaxTextLen == 65
MaxPriceLen == 4

-----------------------------------------------------------------------------
(* JavaScript values *)

Paths == {"preview", "doc", "doc2"}

Undefined == [def |-> FALSE, s |-> <<>>]
Str(seq) == [def |-> TRUE, s |-> seq]

\* ToBoolean of a string-or-undefined: undefined and '' are falsy
Truthy(v) == v.def /\ Len(v.s) > 0

\* v || ''
OrEmpty(v) == IF Truthy(v) THEN v.s ELSE <<>>

\* nothing fetched, nothing rendered
NoFormData == [kind |-> "none"]
NoOutput == [kind |-> "none"]

\* an opaque string that is never split into characters (an enumerated value,
\* an image reference) is a record [def, s] whose s is one TLA+ string
NoAtom == [def |-> FALSE, s |-> ""]
Atom(text) == [def |-> TRUE, s |-> text]
TruthyAtom(v) == v.def /\ v.s # ""
AtomOrEmpty(v) == IF TruthyAtom(v) THEN v.s ELSE ""

\* a parameter with a default value
ArgOr(arg, dflt) == IF arg = <<>> THEN dflt ELSE arg[1]

Min(a, b) == IF a < b THEN a ELSE b

\* String.prototype.split(''): one element per code unit
Split(s) == [i \in 1..Len(s) |-> s[i]]

\* Array.prototype.slice(0, n): a negative n counts from the end
Slice0(a, n) ==
    IF n >= 0 THEN SubSeq(a, 1, Min(n, Len(a)))
    ELSE IF Len(a) + n > 0 THEN SubSeq(a, 1, Len(a) + n) ELSE <<>>

HalfPx(px) == 2 * px

-----------------------------------------------------------------------------
(* Layout constants *)

\* lib/html-renderer.ts
CONTAINER_WIDTH == 612
BOX_WIDTH == 20
BOX_HEIGHT == 24
BORDER_WIDTH == 3           \* 1.5px, in half-pixels

\* preview: defaults and locals of renderCharacterBoxes
Preview_defaultBoxWidth == 12
Preview_boxHeight == 24
Preview_borderWidth == 3    \* 1.5px, in half-pixels

\* second document variant
APPLICANT_BOX_WIDTH == 20
APPLICANT_BOX_HEIGHT == 20
APPLICANT_BORDER_WIDTH == 2 \* 1px, in half-pixels
Doc2_rowGap == 2            \* gap: 1px, in half-pixels

DefaultBoxCount == 20

\* the applicant-form layout of lib/html-renderer.ts and of the preview, in px
PADDING == 20
PHOTO_WIDTH == 130
GAP == 16
LABEL_WIDTH == 155
FIELD_GAP == 10

\* preview: CONTENT_WIDTH, FIELDS_AREA_WIDTH, AVAILABLE_BOX_WIDTH
CONTENT_WIDTH == CONTAINER_WIDTH - (PADDING * 2)
FIELDS_AREA_WIDTH == CONTENT_WIDTH - PHOTO_WIDTH - GAP
AVAILABLE_BOX_WIDTH == FIELDS_AREA_WIDTH - LABEL_WIDTH - FIELD_GAP

-----------------------------------------------------------------------------
(* Character boxes *)

\* mutant: the slice keeps one character too few
BoxChars_sliceShort(v, n) == IF Truthy(v) THEN Slice0(Split(v.s), n - 1) ELSE <<>>

\* const chars = value ? value.toString().split('').slice(0, boxCount) : []
BoxChars(v, n) == IF Truthy(v) THEN Slice0(Split(v.s), n) ELSE <<>>

\* Array.from({ length: boxCount }, (_, i) => chars[i] || '')
BoxCells(chars, n) == [i \in 1..n |-> IF i <= Len(chars) THEN chars[i] ELSE ""]

\* preview: renderCharacterBoxes(value, boxCount = 20, boxWidth = 12)
renderCharacterBoxes(v, nArg, wArg) ==
    LET n == ArgOr(nArg, DefaultBoxCount)
        w == ArgOr(wArg, Preview_defaultBoxWidth)
        totalWidth == (HalfPx(w) + (Preview_borderWidth * 2)) * n
        chars == BoxChars(v, n)
    IN  [declared |-> TRUE, totalWidth |-> totalWidth,
         gap |-> 0, wrap |-> FALSE,
         cellWidth |-> HalfPx(w), cellHeight |-> HalfPx(Preview_boxHeight),
         borderWidth |-> Preview_borderWidth,
         cells |-> BoxCells(chars, n)]

\* lib/html-renderer.ts: renderCharacterBoxesHTML(value, boxCount = 20, boxWidth = BOX_WIDTH)
renderCharacterBoxesHTML(v, nArg, wArg) ==
    LET n == ArgOr(nArg, DefaultBoxCount)
        w == ArgOr(wArg, BOX_WIDTH)
        chars == BoxChars(v, n)
        totalWidth == (HalfPx(w) + (BORDER_WIDTH * 2)) * n
    IN  [declared |-> TRUE, totalWidth |-> totalWidth,
         gap |-> 0, wrap |-> FALSE,
         cellWidth |-> HalfPx(w), cellHeight |-> HalfPx(BOX_HEIGHT),
         borderWidth |-> BORDER_WIDTH,
         cells |-> BoxCells(chars, n)]

\* second variant: the row container declares no width, wraps, and has a 1px gap
renderCharacterBoxesHTML2(v, nArg, wArg) ==
    LET n == ArgOr(nArg, DefaultBoxCount)
        w == ArgOr(wArg, APPLICANT_BOX_WIDTH)
        chars == BoxChars(v, n)
    IN  [declared |-> FALSE, totalWidth |-> 0,
         gap |-> Doc2_rowGap, wrap |-> TRUE,
         cellWidth |-> HalfPx(w), cellHeight |-> HalfPx(APPLICANT_BOX_HEIGHT),
         borderWidth |-> APPLICANT_BORDER_WIDTH,
         cells |-> BoxCells(chars, n)]

RenderBoxes(path, v, nArg, wArg) ==
    CASE path = "preview" -> renderCharacterBoxes(v, nArg, wArg)
      [] path = "doc"     -> renderCharacterBoxesHTML(v, nArg, wArg)
      [] path = "doc2"    -> renderCharacterBoxesHTML2(v, nArg, wArg)


-----------------------------------------------------------------------------
(* Strings used by the form renderers *)

\* the characters the regular expression's `.` does not match
LineTerminators == {"\n", "\r", "LS", "PS"}

\* the characters String.prototype.trim() strips (those the inputs can hold)
WhiteSpace == {" ", "\t"} \cup LineTerminators

RECURSIVE TrimStart(_)
TrimStart(s) ==
    IF Len(s) > 0 /\ s[1] \in WhiteSpace THEN TrimStart(Tail(s)) ELSE s

RECURSIVE TrimEnd(_)
TrimEnd(s) ==
    IF Len(s) > 0 /\ s[Len(s)] \in WhiteSpace
    THEN TrimEnd(SubSeq(s, 1, Len(s) - 1)) ELSE s

Trim(s) == TrimEnd(TrimStart(s))

\* one match of /.{1,20}/ at position i: the longest run, of at most 20 code
\* units, holding no line terminator (0: no match at i)
RECURSIVE RunLength(_, _, _)
RunLength(s, i, taken) ==
    IF taken < 20 /\ i <= Len(s) /\ s[i] \notin LineTerminators
    THEN RunLength(s, i + 1, taken + 1)
    ELSE taken

\* s.match(/.{1,20}/g) || [], scanning from position i
RECURSIVE MatchAll20(_, _)
MatchAll20(s, i) ==
    IF i > Len(s) THEN <<>>
    ELSE LET r == RunLength(s, i, 0)
         IN  IF r = 0 THEN MatchAll20(s, i + 1)
             ELSE <<SubSeq(s, i, i + r - 1)>> \o MatchAll20(s, i + r)

\* const lineValue = lines[i] || ''   (i counted from 1 here)
LineValue(lines, i) == IF i <= Len(lines) THEN Str(lines[i]) ELSE Str(<<>>)

\* Array.from({ length: rowCount }, (_, i) => renderBoxes(lines[i] || '', 20, w))
MultiLineField(path, v, rowCount, w) ==
    LET lines == MatchAll20(OrEmpty(v), 1)
    IN  [k \in 1..rowCount |-> RenderBoxes(path, LineValue(lines, k), <<20>>, <<w>>)]


-----------------------------------------------------------------------------
(* Signature footer *)

\* formData.applicants[i - 1]: <<>> when there is no such element
ApplicantAt(fd, i) == IF i <= Len(fd.applicants) THEN <<fd.applicants[i]>> ELSE <<>>

\* formData.applicants[i - 1]?.signature
SignatureAt(fd, i) ==
    IF ApplicantAt(fd, i) = <<>> THEN NoAtom ELSE ApplicantAt(fd, i)[1].signature

EmptyString == [kind |-> "empty"]
Null == [kind |-> "null"]
NoFooter == [kind |-> "nofooter"]

FooterSlot(caption, image) == [caption |-> caption, image |-> image]

\* mutant: the html buffer is shared by the calls and never reset, so the
\* slots of a call come after those of the call before
renderSignatureFooterHTML_sharedBuffer(fd) ==
    LET before ==
            IF log # <<>> /\ log[Len(log)].result.footer.kind = "footer"
            THEN log[Len(log)].result.footer.slots ELSE <<>>
        hasFirstSignature == TruthyAtom(SignatureAt(fd, 1))
        hasSecondSignature == TruthyAtom(SignatureAt(fd, 2))
    IN  IF ~hasFirstSignature /\ ~hasSecondSignature THEN EmptyString
        ELSE [kind |-> "footer",
              slots |->
                  before
                  \o
                  (IF hasFirstSignature
                   THEN <<FooterSlot("Sole/First Applicant", <<SignatureAt(fd, 1).s>>)>>
                   ELSE <<>>)
                  \o
                  (IF hasSecondSignature
                   THEN <<FooterSlot("Second Applicant, if any", <<SignatureAt(fd, 2).s>>)>>
                   ELSE <<>>)]

\* renderSignatureFooterHTML(formData), both document variants: '' without
\* any signature, else one slot per signature that is present
renderSignatureFooterHTML(fd) ==
    LET hasFirstSignature == TruthyAtom(SignatureAt(fd, 1))
        hasSecondSignature == TruthyAtom(SignatureAt(fd, 2))
    IN  IF ~hasFirstSignature /\ ~hasSecondSignature THEN EmptyString
        ELSE [kind |-> "footer",
              slots |->
                  (IF hasFirstSignature
                   THEN <<FooterSlot("Sole/First Applicant", <<SignatureAt(fd, 1).s>>)>>
                   ELSE <<>>)
                  \o
                  (IF hasSecondSignature
                   THEN <<FooterSlot("Second Applicant, if any", <<SignatureAt(fd, 2).s>>)>>
                   ELSE <<>>)]

\* preview: the footer of renderApplicantForm, `applicantNumber === 1 && (...)`:
\* always two slots, a placeholder caption where the image is missing
PreviewSignatureFooter(applicant, applicantNumber, fd) ==
    IF applicantNumber = 1
    THEN [kind |-> "footer",
          slots |->
              << IF TruthyAtom(applicant.signature)
                 THEN FooterSlot("", <<applicant.signature.s>>)
                 ELSE FooterSlot("Sole/First Applicant", <<>>),
                 IF TruthyAtom(SignatureAt(fd, 2))
                 THEN FooterSlot("", <<SignatureAt(fd, 2).s>>)
                 ELSE FooterSlot("Second Applicant, if any", <<>>) >>]
    ELSE NoFooter

-----------------------------------------------------------------------------
(* Applicant block *)

\* mutant: the joint applicants are numbered with applicantNumber itself
Heading_jointNotShifted(applicantNumber) ==
    IF applicantNumber = 1
    THEN [number |-> applicantNumber, text |-> "SOLE OR FIRST APPLICANT(S)", joint |-> 0,
          suffix |-> ":-"]
    ELSE [number |-> applicantNumber, text |-> "JOINT APPLICANT", joint |-> applicantNumber,
          suffix |-> ":-"]

\* `${applicantNumber}. `, then 'SOLE OR FIRST APPLICANT(S):-' for number 1 and
\* `JOINT APPLICANT ${applicantNumber - 1}:-` for the others (joint 0: no number shown)
Heading(applicantNumber) ==
    IF applicantNumber = 1
    THEN [number |-> applicantNumber, text |-> "SOLE OR FIRST APPLICANT(S)", joint |-> 0,
          suffix |-> ":-"]
    ELSE [number |-> applicantNumber, text |-> "JOINT APPLICANT", joint |-> applicantNumber - 1,
          suffix |-> ":-"]

FixedLabel(text) == [fixed |-> text, data |-> <<>>]
DataLabel(v) == [fixed |-> "", data |-> OrEmpty(v)]

\* one label + boxes row of the form
Field(id, label, boxRows) == [id |-> id, label |-> label, rows |-> boxRows, checked |-> <<>>]

\* status === 'literal'
StrictEquals(v, literal) == v.def /\ v.s = literal

\* mutant: the first box is checked by every status that ends in "Resident"
ResidentialStatusField_suffixMatch(status) ==
    [id |-> "residentialStatus", label |-> FixedLabel("Residential Status:"), rows |-> <<>>,
     checked |-> << StrictEquals(status, "Resident") \/ StrictEquals(status, "Non-Resident"),
                    StrictEquals(status, "Non-Resident"),
                    StrictEquals(status, "Foreign National of Indian Origin") >>]

\* the three residential-status checkboxes, each checked on exact equality
ResidentialStatusField(status) ==
    [id |-> "residentialStatus", label |-> FixedLabel("Residential Status:"), rows |-> <<>>,
     checked |-> << StrictEquals(status, "Resident"),
                    StrictEquals(status, "Non-Resident"),
                    StrictEquals(status, "Foreign National of Indian Origin") >>]

\* `${applicant.title || ''} ${applicant.name || ''}`.trim() || ''
TitleName(applicant) == Trim(OrEmpty(applicant.title) \o <<" ">> \o OrEmpty(applicant.name))

\* second variant: `${applicant.name || ''}`.trim() || ''
TitleName2(applicant) == Trim(OrEmpty(applicant.name))

\* applicant.photograph ? <img> : placeholder
Photo(applicant) ==
    IF TruthyAtom(applicant.photograph) THEN <<applicant.photograph.s>> ELSE <<>>

\* the rows after the first two, the same in the three renderers
CommonFieldsA(path, a, w) ==
    << Field("nationality", FixedLabel("Nationality:"),
             <<RenderBoxes(path, Str(OrEmpty(a.nationality)), <<20>>, <<w>>)>>),
       Field("age", FixedLabel("Age:"),
             <<RenderBoxes(path, Str(OrEmpty(a.age)), <<20>>, <<w>>)>>),
       Field("dob", FixedLabel("DOB:"),
             <<RenderBoxes(path, Str(OrEmpty(a.dob)), <<20>>, <<w>>)>>),
       Field("profession", FixedLabel("Profession:"),
             <<RenderBoxes(path, Str(OrEmpty(a.profession)), <<20>>, <<w>>)>>),
       Field("aadhaar", FixedLabel("Aadhar No.:"),
             <<RenderBoxes(path, Str(OrEmpty(a.aadhaar)), <<20>>, <<w>>)>>) >>

CommonFieldsB(path, a, w) ==
    << Field("pan", FixedLabel("Income Tax Permanent Account No.:"),
             <<RenderBoxes(path, Str(OrEmpty(a.pan)), <<20>>, <<w>>)>>),
       Field("itWard", FixedLabel("Ward / Circle / Special Range / Place, where assessed to income tax:"),
             MultiLineField(path, a.itWard, 2, w)),
       Field("correspondenceAddress", FixedLabel("Correspondence Address:"),
             MultiLineField(path, a.correspondenceAddress, 3, w)),
       Field("telNo", FixedLabel("Tel No.:"),
             <<RenderBoxes(path, Str(OrEmpty(a.telNo)), <<20>>, <<w>>)>>),
       Field("phone", FixedLabel("Mobile:"),
             <<RenderBoxes(path, Str(OrEmpty(a.phone)), <<20>>, <<w>>)>>),
       Field("email", FixedLabel("E-Mail ID:"),
             <<RenderBoxes(path, Str(OrEmpty(a.email)), <<20>>, <<w>>)>>) >>

\* mutant: the joint-applicant guard also drops a nameless first applicant
OmitApplicant_anyNumber(applicantOpt, applicantNumber) ==
    \/ applicantOpt = <<>>
    \/ ~Truthy(applicantOpt[1].name) /\ applicantNumber >= 1

\* mutant: the guard forgets the name
OmitApplicant_noNameCheck(applicantOpt, applicantNumber) ==
    applicantOpt = <<>>

\* if (!applicant || (!applicant.name && applicantNumber > 1)) return ''  (or null)
OmitApplicant(applicantOpt, applicantNumber) ==
    \/ applicantOpt = <<>>
    \/ ~Truthy(applicantOpt[1].name) /\ applicantNumber > 1

\* preview: renderApplicantForm(applicant, applicantNumber), reading formData
renderApplicantForm(applicantOpt, applicantNumber, fd) ==
    IF OmitApplicant(applicantOpt, applicantNumber) THEN Null
    ELSE LET a == applicantOpt[1]
             w == BOX_WIDTH
         IN  [kind |-> "block", width |-> CONTAINER_WIDTH,
              heading |-> Heading(applicantNumber),
              fields |->
                  << Field("titleName", FixedLabel("Mr./Mrs./Ms./M/s."),
                           <<RenderBoxes("preview", Str(TitleName(a)), <<20>>, <<w>>)>>),
                     Field("sonWifeDaughterOf", FixedLabel("Son/Wife/Daughter of."),
                           <<RenderBoxes("preview", Str(OrEmpty(a.sonWifeDaughterOf)), <<20>>, <<w>>)>>) >>
                  \o CommonFieldsA("preview", a, w)
                  \o <<ResidentialStatusField(a.residentialStatus)>>
                  \o CommonFieldsB("preview", a, w),
              photo |-> Photo(a),
              footer |-> PreviewSignatureFooter(a, applicantNumber, fd)]

\* lib/html-renderer.ts: renderApplicantFormHTML(applicant, applicantNumber, formData)
renderApplicantFormHTML(applicantOpt, applicantNumber, fd) ==
    IF OmitApplicant(applicantOpt, applicantNumber) THEN EmptyString
    ELSE LET a == applicantOpt[1]
             w == BOX_WIDTH
         IN  [kind |-> "block", width |-> CONTAINER_WIDTH,
              heading |-> Heading(applicantNumber),
              fields |->
                  << Field("titleName", FixedLabel("Mr./Mrs./Ms./M/s."),
                           <<RenderBoxes("doc", Str(TitleName(a)), <<20>>, <<w>>)>>),
                     Field("sonWifeDaughterOf", FixedLabel("Son/Wife/Daughter of."),
                           <<RenderBoxes("doc", Str(OrEmpty(a.sonWifeDaughterOf)), <<20>>, <<w>>)>>) >>
                  \o CommonFieldsA("doc", a, w)
                  \o <<ResidentialStatusField(Atom(AtomOrEmpty(a.residentialStatus)))>>
                  \o CommonFieldsB("doc", a, w),
              photo |-> Photo(a),
              footer |-> renderSignatureFooterHTML(fd)]

\* second variant: the first row is 15 boxes of the name under the title as label
renderApplicantFormHTML2(applicantOpt, applicantNumber, fd) ==
    IF OmitApplicant(applicantOpt, applicantNumber) THEN EmptyString
    ELSE LET a == applicantOpt[1]
             w == APPLICANT_BOX_WIDTH
         IN  [kind |-> "block", width |-> CONTAINER_WIDTH,
              heading |-> Heading(applicantNumber),
              fields |->
                  << Field("titleName", DataLabel(a.title),
                           <<RenderBoxes("doc2", Str(TitleName2(a)), <<15>>, <<w>>)>>),
                     Field("sonWifeDaughterOf", DataLabel(a.relation),
                           <<RenderBoxes("doc2", Str(OrEmpty(a.sonWifeDaughterOf)), <<20>>, <<w>>)>>) >>
                  \o CommonFieldsA("doc2", a, w)
                  \o <<ResidentialStatusField(Atom(AtomOrEmpty(a.residentialStatus)))>>
                  \o CommonFieldsB("doc2", a, w),
              photo |-> Photo(a),
              footer |-> renderSignatureFooterHTML(fd)]

\* preview state: setApplicantCount(data.applicantCount || 1)
PreviewApplicantCount(dataCount) ==
    IF dataCount = <<>> \/ dataCount[1] = 0 THEN 1 ELSE dataCount[1]

\* preview: a page of the template, shown as it is
PdfPage(pageNumber) == [kind |-> "pdfPage", page |-> pageNumber, width |-> CONTAINER_WIDTH]

\* mutant: a joint applicant's page that is not replaced shows the template page
PreviewApplicantPage_templatePage(pageNumber, fd, dataCount) ==
    LET k == pageNumber - 4
        replaced ==
            \/ pageNumber = 5
            \/ /\ PreviewApplicantCount(dataCount) >= k
               /\ ApplicantAt(fd, k) # <<>>
               /\ Truthy(ApplicantAt(fd, k)[1].name)
    IN  IF replaced
        THEN [kind |-> "formPage", page |-> pageNumber, width |-> CONTAINER_WIDTH,
              block |-> renderApplicantForm(ApplicantAt(fd, k), k, fd)]
        ELSE PdfPage(pageNumber)

\* preview: what the page loop returns for page 5, 6 or 7 (applicant 1, 2, 3)
PreviewApplicantPage(pageNumber, fd, dataCount) ==
    LET k == pageNumber - 4
        shown ==
            \/ pageNumber = 5
            \/ /\ PreviewApplicantCount(dataCount) >= k
               /\ ApplicantAt(fd, k) # <<>>
               /\ Truthy(ApplicantAt(fd, k)[1].name)
    IN  IF shown
        THEN [kind |-> "formPage", page |-> pageNumber, width |-> CONTAINER_WIDTH,
              block |-> renderApplicantForm(ApplicantAt(fd, k), k, fd)]
        ELSE Null


-----------------------------------------------------------------------------
(* Apartment and declaration block *)

\* price.replace(/[₹,]/g, '')
StripCurrency(s) == SelectSeq(s, LAMBDA c : c \notin {"₹", ","})

\* formData.unitPrice ? formData.unitPrice.replace(/[₹,]/g, '') : ''
PriceClean(v) == IF Truthy(v) THEN StripCurrency(v.s) ELSE <<>>

Text3BHK == <<"3", " ", "B", "H", "K">>
Text4BHK == <<"4", " ", "B", "H", "K">>

\* document backends: bhkType === '3bhk' ? '3 BHK' : bhkType === '4bhk' ? '4 BHK' : ''
bhkTypeDisplay(v) ==
    IF StrictEquals(v, "3bhk") THEN Text3BHK
    ELSE IF StrictEquals(v, "4bhk") THEN Text4BHK
    ELSE <<>>

\* preview: bhkType ? (bhkType === '3bhk' ? '3 BHK' : '4 BHK') : ''
PreviewBhkTypeDisplay(v) ==
    IF TruthyAtom(v)
    THEN (IF StrictEquals(v, "3bhk") THEN Text3BHK ELSE Text4BHK)
    ELSE <<>>

\* preview: one label + boxes row, the box width left to its default
BoxField(id, text, n) ==
    [id |-> id, shown |-> "boxes", text |-> <<>>,
     rows |-> <<renderCharacterBoxes(Str(text), <<n>>, <<>>)>>]

\* document backends: one label + value-field row holding the text itself
ValueField(id, text) == [id |-> id, shown |-> "text", text |-> text, rows |-> <<>>]

\* preview: renderApartmentForm()
renderApartmentForm(fdOpt) ==
    IF fdOpt = <<>> THEN Null
    ELSE LET f == fdOpt[1].apartment
         IN  [kind |-> "block", width |-> CONTAINER_WIDTH,
              fields |->
                  << BoxField("tower", OrEmpty(f.tower), 15),
                     BoxField("apartmentNumber", OrEmpty(f.apartmentNumber), 15),
                     BoxField("bhkType", PreviewBhkTypeDisplay(f.bhkType), 10),
                     BoxField("floor", OrEmpty(f.floor), 15),
                     BoxField("carpetAreaSqm", OrEmpty(f.carpetAreaSqm), 10),
                     BoxField("carpetAreaSqft", OrEmpty(f.carpetAreaSqft), 10),
                     BoxField("unitPrice", PriceClean(f.unitPrice), 15),
                     BoxField("totalPrice", PriceClean(f.totalPrice), 15),
                     BoxField("declarationDate", OrEmpty(f.declarationDate), 10),
                     BoxField("declarationPlace", OrEmpty(f.declarationPlace), 25) >>,
              footer |-> NoFooter]

\* renderApartmentFormHTML(formData), the same fields in both document variants
renderApartmentFormHTML(fd) ==
    LET f == fd.apartment
        unitPriceClean == PriceClean(f.unitPrice)
        totalPriceClean == PriceClean(f.totalPrice)
    IN  [kind |-> "block", width |-> CONTAINER_WIDTH,
         fields |->
             << ValueField("tower", OrEmpty(f.tower)),
                ValueField("apartmentNumber", OrEmpty(f.apartmentNumber)),
                ValueField("bhkType", bhkTypeDisplay(f.bhkType)),
                ValueField("floor", OrEmpty(f.floor)),
                ValueField("carpetAreaSqm", OrEmpty(f.carpetAreaSqm)),
                ValueField("carpetAreaSqft", OrEmpty(f.carpetAreaSqft)),
                ValueField("unitPrice", unitPriceClean),
                ValueField("totalPrice", totalPriceClean),
                ValueField("declarationDate", OrEmpty(f.declarationDate)),
                ValueField("declarationPlace", OrEmpty(f.declarationPlace)) >>,
         footer |-> renderSignatureFooterHTML(fd)]

renderApartmentFormHTML2(fd) == renderApartmentFormHTML(fd)

\* preview: what the page loop returns for page 8
PreviewApartmentPage(fd) ==
    [kind |-> "formPage", page |-> 8, width |-> CONTAINER_WIDTH,
     block |-> renderApartmentForm(<<fd>>)]

\* preview: what the page loop returns for page `pageNumber` of the template
PreviewPageAt(pageNumber, fd, dataCount) ==
    IF pageNumber < 5 THEN PdfPage(pageNumber)
    ELSE IF pageNumber \in 5..7 THEN PreviewApplicantPage(pageNumber, fd, dataCount)
    ELSE IF pageNumber = 8 THEN PreviewApartmentPage(fd)
    ELSE PdfPage(pageNumber)

\* Array.from(new Array(numPages), (el, index) => ...): the pages in order,
\* a null element showing nothing
PreviewPageList(n, fd, dataCount) ==
    SelectSeq([i \in 1..n |-> PreviewPageAt(i, fd, dataCount)], LAMBDA item : item # Null)

\* ToBoolean of the formData state
HasFormData(fd) == fd.kind = "formData"

\* what PreviewPage returns in the current state
PreviewRender ==
    IF loading THEN [kind |-> "loadingScreen"]
    ELSE IF error # <<>> THEN [kind |-> "errorScreen", message |-> error[1]]
    ELSE [kind |-> "page",
          pages |-> IF pdfUrl # <<>> /\ HasFormData(formData)
                    THEN PreviewPageList(numPages, formData, applicantCount)
                    ELSE <<>>]

-----------------------------------------------------------------------------
(* State outside a specification's own part *)

\* the pages the renderers put forms on: the first applicant's and the apartment's
ComparedPages == {5, 8}

\* no block rendered for comparison, no call logged
NothingShown ==
    /\ blocks = [k \in Paths \X ComparedPages |-> <<>>]
    /\ log = <<>>

\* no preview page mounted: the state variables hold their useState defaults
PreviewUnmounted ==
    /\ numPages = 0
    /\ pdfUrl = <<>>
    /\ loading = TRUE
    /\ error = <<>>
    /\ server = [kind |-> "none"]
    /\ pdfDocument = "idle"

\* no PDFViewer mounted: its state holds the useState defaults
ViewerUnmounted ==
    /\ containerWidth = <<>>
    /\ viewerNumPages = 0

\* no dashboard mounted: its state holds the useState defaults, nothing in flight
AdminUnmounted ==
    /\ selectedApplication = <<>>
    /\ adminPdfUrl = <<>>
    /\ adminNumPages = 0
    /\ adminPageNumber = 1
    /\ fetches = <<>>
    /\ adminDocument = [file |-> <<>>, state |-> "idle"]

\* no record stored, the route never called
ApiIdle ==
    /\ db = <<>>
    /\ calls = <<>>

HostsUnmounted == ViewerUnmounted /\ AdminUnmounted /\ ApiIdle

-----------------------------------------------------------------------------
(* Inputs *)

Alphabet == {"a", "b"}

RECURSIVE StringsOfLen(_)
StringsOfLen(k) ==
    IF k = 0 THEN {<<>>}
    ELSE {Append(s, c) : s \in StringsOfLen(k - 1), c \in Alphabet}

ShortStrings == UNION {StringsOfLen(k) : k \in 0..MaxLen}

BoxValues == {Undefined} \cup {Str(s) : s \in ShortStrings}

\* the cell counts the callers pass, and every small count
CallerBoxCounts == {10, 15, 20, 25}
BoxCountArgs == {<<>>} \cup {<<n>> : n \in (1..MaxBoxCount) \cup CallerBoxCounts}
BoxWidthArgs == {<<>>, <<Preview_defaultBoxWidth>>, <<BOX_WIDTH>>}

-----------------------------------------------------------------------------
(* Specification of the character-box calls *)

InitBoxes ==
    /\ value \in BoxValues
    /\ boxCount \in BoxCountArgs
    /\ boxWidth \in BoxWidthArgs
    /\ rows = [p \in Paths |-> <<>>]
    /\ formData = NoFormData
    /\ applicantCount = <<>>
    /\ out = NoOutput
    /\ NothingShown
    /\ HostsUnmounted
    /\ PreviewUnmounted

CallRenderCharacterBoxes ==
    /\ rows["preview"] = <<>>
    /\ rows' = [rows EXCEPT !["preview"] = <<renderCharacterBoxes(value, boxCount, boxWidth)>>]
    /\ UNCHANGED <<value, boxCount, boxWidth, formData, applicantCount, out, sessionVars, previewVars, hostVars>>

CallRenderCharacterBoxesHTML ==
    /\ rows["doc"] = <<>>
    /\ rows' = [rows EXCEPT !["doc"] = <<renderCharacterBoxesHTML(value, boxCount, boxWidth)>>]
    /\ UNCHANGED <<value, boxCount, boxWidth, formData, applicantCount, out, sessionVars, previewVars, hostVars>>

CallRenderCharacterBoxesHTML2 ==
    /\ rows["doc2"] = <<>>
    /\ rows' = [rows EXCEPT !["doc2"] = <<renderCharacterBoxesHTML2(value, boxCount, boxWidth)>>]
    /\ UNCHANGED <<value, boxCount, boxWidth, formData, applicantCount, out, sessionVars, previewVars, hostVars>>

NextBoxes ==
    \/ CallRenderCharacterBoxes
    \/ CallRenderCharacterBoxesHTML
    \/ CallRenderCharacterBoxesHTML2

SpecBoxes == InitBoxes /\ [][NextBoxes]_vars


-----------------------------------------------------------------------------
(* Specification of the character-box calls with a cell count of zero or less *)

\* how far below zero the cell counts of the calls go
MaxBelowZero == 3

NonPositiveBoxCountArgs == {<<0 - n>> : n \in 0..MaxBelowZero}

InitNonPositive ==
    /\ value \in BoxValues
    /\ boxCount \in NonPositiveBoxCountArgs
    /\ boxWidth \in BoxWidthArgs
    /\ rows = [p \in Paths |-> <<>>]
    /\ formData = NoFormData
    /\ applicantCount = <<>>
    /\ out = NoOutput
    /\ NothingShown
    /\ HostsUnmounted
    /\ PreviewUnmounted

SpecNonPositive == InitNonPositive /\ [][NextBoxes]_vars

-----------------------------------------------------------------------------
(* Form datasets *)

Chars(text) == Str(text)

\* an applicant record with nothing filled in
BlankApplicant ==
    [title |-> Undefined, name |-> Undefined, relation |-> Undefined,
     sonWifeDaughterOf |-> Undefined, nationality |-> Undefined, age |-> Undefined,
     dob |-> Undefined, profession |-> Undefined, aadhaar |-> Undefined,
     residentialStatus |-> NoAtom, pan |-> Undefined, itWard |-> Undefined,
     correspondenceAddress |-> Undefined, telNo |-> Undefined, phone |-> Undefined,
     email |-> Undefined, photograph |-> NoAtom, signature |-> NoAtom]

\* a filled-in applicant record; name and signature are set by the caller
SampleApplicant ==
    [BlankApplicant EXCEPT
        !.title = Chars(<<"M", "r">>),
        !.relation = Chars(<<"S", "/", "o">>),
        !.sonWifeDaughterOf = Chars(<<"R", "a", "o">>),
        !.nationality = Chars(<<"I", "N">>),
        !.age = Chars(<<"4", "0">>),
        !.residentialStatus = Atom("Resident"),
        !.itWard = Chars(<<"W", "1">>),
        !.correspondenceAddress = Chars(<<"D", "e", "l", "h", "i">>),
        !.phone = Chars(<<"9", "8">>)]

BlankApartment ==
    [tower |-> Undefined, apartmentNumber |-> Undefined, bhkType |-> NoAtom,
     floor |-> Undefined, carpetAreaSqm |-> Undefined, carpetAreaSqft |-> Undefined,
     unitPrice |-> Undefined, totalPrice |-> Undefined,
     declarationDate |-> Undefined, declarationPlace |-> Undefined]

FormDataOf(applicants, apartment) ==
    [kind |-> "formData", applicants |-> applicants, apartment |-> apartment]

\* names and signatures a slot can hold
FirstNames == {Str(<<>>), Str(<<"A">>)}
JointNames == {Undefined, Str(<<>>), Str(<<"B">>)}
Signatures == {NoAtom, Atom("data:sig")}

SlotApplicant(name, signature) ==
    [SampleApplicant EXCEPT !.name = name, !.signature = signature]

\* datasets of one to three applicant records that differ in names and signatures
SlotDatasets ==
    {FormDataOf(<<SlotApplicant(n1, s1)>>, BlankApartment) :
        n1 \in FirstNames, s1 \in Signatures}
    \cup
    {FormDataOf(<<SlotApplicant(n1, s1), SlotApplicant(n2, s2)>>, BlankApartment) :
        n1 \in FirstNames, s1 \in Signatures, n2 \in JointNames, s2 \in Signatures}
    \cup
    {FormDataOf(<<SlotApplicant(n1, s1), SlotApplicant(n2, s2), SlotApplicant(n3, NoAtom)>>,
                BlankApartment) :
        n1 \in FirstNames, s1 \in Signatures, n2 \in JointNames, s2 \in Signatures,
        n3 \in JointNames}

\* data.applicantCount: missing, or 0..3
ApplicantCounts == {<<>>} \cup {<<n>> : n \in 0..3}

\* a text of `len` letters, the one at `pos` (if any) replaced by a line feed
Letters == <<"a", "b", "c", "d", "e", "f", "g">>
PatternText(len, pos) ==
    [i \in 1..len |-> IF i = pos THEN "\n" ELSE Letters[((i - 1) % 7) + 1]]

LongTexts == {PatternText(len, pos) : len \in 0..MaxTextLen, pos \in 0..MaxTextLen}

\* datasets of one applicant whose tax ward and address hold the same long text
TextDatasets ==
    {FormDataOf(<<[SampleApplicant EXCEPT !.name = Str(<<"A">>),
                                          !.itWard = Str(s),
                                          !.correspondenceAddress = Str(s)]>>,
                BlankApartment) : s \in LongTexts}

\* the residential status a record can hold: none, empty, the three values
\* of the form, and values that match none of them
ResidentialStatuses ==
    {NoAtom, Atom(""), Atom("Resident"), Atom("Non-Resident"),
     Atom("Foreign National of Indian Origin"), Atom("resident"), Atom("NRI")}

\* datasets of two applicants that differ in the residential status and the title
StatusDatasets ==
    {FormDataOf(<<[SampleApplicant EXCEPT !.name = Str(<<"A">>), !.title = t,
                                          !.residentialStatus = r],
                  [SampleApplicant EXCEPT !.name = Str(<<"B">>),
                                          !.residentialStatus = r]>>,
                BlankApartment) :
        r \in ResidentialStatuses, t \in {Undefined, Chars(<<"M", "r">>)}}

-----------------------------------------------------------------------------
(* Specification of the applicant-block renders *)

Output(path, number, result) ==
    [kind |-> "output", path |-> path, number |-> number, result |-> result]

InitApplicant ==
    /\ \/ formData \in SlotDatasets /\ applicantCount \in ApplicantCounts
       \/ formData \in TextDatasets /\ applicantCount = <<1>>
       \/ formData \in StatusDatasets /\ applicantCount = <<2>>
    /\ out = NoOutput
    /\ value = Undefined
    /\ boxCount = <<>>
    /\ boxWidth = <<>>
    /\ rows = [p \in Paths |-> <<>>]
    /\ NothingShown
    /\ HostsUnmounted
    /\ PreviewUnmounted

\* the preview's page loop reaches page 5, 6 or 7
PreviewRenderApplicantPage(pageNumber) ==
    /\ out = NoOutput
    /\ out' = Output("preview", pageNumber - 4,
                     PreviewApplicantPage(pageNumber, formData, applicantCount))
    /\ UNCHANGED <<formData, applicantCount, boxVars, sessionVars, previewVars, hostVars>>

\* a caller renders applicant number k with lib/html-renderer.ts
CallRenderApplicantFormHTML(k) ==
    /\ out = NoOutput
    /\ out' = Output("doc", k, renderApplicantFormHTML(ApplicantAt(formData, k), k, formData))
    /\ UNCHANGED <<formData, applicantCount, boxVars, sessionVars, previewVars, hostVars>>

\* a caller renders applicant number k with the second variant
CallRenderApplicantFormHTML2(k) ==
    /\ out = NoOutput
    /\ out' = Output("doc2", k, renderApplicantFormHTML2(ApplicantAt(formData, k), k, formData))
    /\ UNCHANGED <<formData, applicantCount, boxVars, sessionVars, previewVars, hostVars>>

NextApplicant ==
    \/ \E pageNumber \in 5..7 : PreviewRenderApplicantPage(pageNumber)
    \/ \E k \in 1..3 : CallRenderApplicantFormHTML(k)
    \/ \E k \in 1..3 : CallRenderApplicantFormHTML2(k)

SpecApplicant == InitApplicant /\ [][NextApplicant]_vars


-----------------------------------------------------------------------------
(* Specification of the apartment-block renders *)

PriceAlphabet == {"₹", ",", "1", ".", "$"}

RECURSIVE PricesOfLen(_)
PricesOfLen(k) ==
    IF k = 0 THEN {<<>>}
    ELSE {Append(s, c) : s \in PricesOfLen(k - 1), c \in PriceAlphabet}

\* every short price text, and the price of the specification's example
ExamplePrice == <<"₹", "1", "2", ",", "3", "4", ",", "5", "6", "7">>
PriceTexts == UNION {PricesOfLen(k) : k \in 0..MaxPriceLen} \cup {ExamplePrice}

SampleApartment ==
    [BlankApartment EXCEPT
        !.tower = Chars(<<"T", "2">>),
        !.floor = Chars(<<"1", "2">>),
        !.carpetAreaSqm = Chars(<<"9", "5">>),
        !.declarationPlace = Chars(<<"D", "e", "l", "h", "i">>)]

BhkTypes == {NoAtom, Atom(""), Atom("3bhk"), Atom("4bhk"), Atom("2bhk")}

ApartmentOwner == <<SlotApplicant(Str(<<"A">>), NoAtom)>>

\* datasets that differ in the two prices, and datasets that differ in the unit type
PriceDatasets ==
    {FormDataOf(ApartmentOwner,
                [SampleApartment EXCEPT !.unitPrice = u, !.totalPrice = tp]) :
        u \in {Undefined} \cup {Str(s) : s \in PriceTexts},
        tp \in {Undefined, Str(<<"$", "1", ",", "1">>)}}
    \cup
    {FormDataOf(ApartmentOwner,
                [SampleApartment EXCEPT !.totalPrice = Str(s)]) : s \in PriceTexts}

TypeDatasets ==
    {FormDataOf(<<SlotApplicant(Str(<<"A">>), s1), SlotApplicant(Str(<<"B">>), s2)>>,
                [SampleApartment EXCEPT !.bhkType = b]) :
        b \in BhkTypes, s1 \in Signatures, s2 \in Signatures}

InitApartment ==
    /\ formData \in PriceDatasets \cup TypeDatasets
    /\ applicantCount = <<1>>
    /\ out = NoOutput
    /\ value = Undefined
    /\ boxCount = <<>>
    /\ boxWidth = <<>>
    /\ rows = [p \in Paths |-> <<>>]
    /\ NothingShown
    /\ HostsUnmounted
    /\ PreviewUnmounted

\* the preview's page loop reaches page 8
PreviewRenderApartmentPage ==
    /\ out = NoOutput
    /\ out' = Output("preview", 8, PreviewApartmentPage(formData))
    /\ UNCHANGED <<formData, applicantCount, boxVars, sessionVars, previewVars, hostVars>>

\* a caller renders page 8 with lib/html-renderer.ts
CallRenderApartmentFormHTML ==
    /\ out = NoOutput
    /\ out' = Output("doc", 8, renderApartmentFormHTML(formData))
    /\ UNCHANGED <<formData, applicantCount, boxVars, sessionVars, previewVars, hostVars>>

\* a caller renders page 8 with the second variant
CallRenderApartmentFormHTML2 ==
    /\ out = NoOutput
    /\ out' = Output("doc2", 8, renderApartmentFormHTML2(formData))
    /\ UNCHANGED <<formData, applicantCount, boxVars, sessionVars, previewVars, hostVars>>

NextApartment ==
    \/ PreviewRenderApartmentPage
    \/ CallRenderApartmentFormHTML
    \/ CallRenderApartmentFormHTML2

SpecApartment == InitApartment /\ [][NextApartment]_vars

-----------------------------------------------------------------------------
(* Specification of the renders of one dataset by the three render paths *)

MaxFieldLen == 27

\* a text of `len` letters without line terminator
FieldText(len) == Str(PatternText(len, 0))

\* datasets whose apartment fields all hold a text of the same length, with a
\* first and a second applicant that have a signature or not
CompareDatasets ==
    {FormDataOf(<<SlotApplicant(Str(<<"A">>), s1), SlotApplicant(Str(<<"B">>), s2)>>,
                [BlankApartment EXCEPT
                    !.tower = FieldText(len), !.apartmentNumber = FieldText(len),
                    !.floor = FieldText(len), !.carpetAreaSqm = FieldText(len),
                    !.carpetAreaSqft = FieldText(len), !.unitPrice = FieldText(len),
                    !.totalPrice = FieldText(len), !.declarationDate = FieldText(len),
                    !.declarationPlace = FieldText(len), !.bhkType = Atom("3bhk")]) :
        s1 \in Signatures, s2 \in Signatures, len \in 0..MaxFieldLen}

InitCompare ==
    /\ formData \in CompareDatasets
    /\ applicantCount = <<2>>
    /\ out = NoOutput
    /\ value = Undefined
    /\ boxCount = <<>>
    /\ boxWidth = <<>>
    /\ rows = [p \in Paths |-> <<>>]
    /\ NothingShown
    /\ HostsUnmounted
    /\ PreviewUnmounted

\* the preview's page loop renders page 5 or page 8
PreviewShowPage(pageNumber) ==
    /\ blocks[<<"preview", pageNumber>>] = <<>>
    /\ blocks' = [blocks EXCEPT ![<<"preview", pageNumber>>] =
                     << IF pageNumber = 5
                        THEN PreviewApplicantPage(5, formData, applicantCount).block
                        ELSE PreviewApartmentPage(formData).block >>]
    /\ UNCHANGED <<boxVars, formVars, log, previewVars, hostVars>>

\* a caller renders page 5 or page 8 with lib/html-renderer.ts
RenderDocumentPage(pageNumber) ==
    /\ blocks[<<"doc", pageNumber>>] = <<>>
    /\ blocks' = [blocks EXCEPT ![<<"doc", pageNumber>>] =
                     << IF pageNumber = 5
                        THEN renderApplicantFormHTML(ApplicantAt(formData, 1), 1, formData)
                        ELSE renderApartmentFormHTML(formData) >>]
    /\ UNCHANGED <<boxVars, formVars, log, previewVars, hostVars>>

\* a caller renders page 5 or page 8 with the second variant
RenderDocumentPage2(pageNumber) ==
    /\ blocks[<<"doc2", pageNumber>>] = <<>>
    /\ blocks' = [blocks EXCEPT ![<<"doc2", pageNumber>>] =
                     << IF pageNumber = 5
                        THEN renderApplicantFormHTML2(ApplicantAt(formData, 1), 1, formData)
                        ELSE renderApartmentFormHTML2(formData) >>]
    /\ UNCHANGED <<boxVars, formVars, log, previewVars, hostVars>>

NextCompare ==
    \/ \E pageNumber \in ComparedPages : PreviewShowPage(pageNumber)
    \/ \E pageNumber \in ComparedPages : RenderDocumentPage(pageNumber)
    \/ \E pageNumber \in ComparedPages : RenderDocumentPage2(pageNumber)

SpecCompare == InitCompare /\ [][NextCompare]_vars

-----------------------------------------------------------------------------
(* Specification of repeated calls of the document renderer *)

MaxCalls == 3

\* the datasets a caller switches between: they differ in the signatures and
\* in the apartment
RepeatDatasets ==
    {FormDataOf(<<SlotApplicant(Str(<<"A">>), Atom("data:sig")),
                  SlotApplicant(Str(<<"B">>), NoAtom)>>, SampleApartment),
     FormDataOf(<<SlotApplicant(Str(<<"A">>), NoAtom),
                  SlotApplicant(Str(<<"B">>), Atom("data:sig2"))>>, BlankApartment)}

\* one call of an exported renderer: its name, its arguments and what it returned
Call(fn, number, fd, result) ==
    [fn |-> fn, number |-> number, formData |-> fd, result |-> result]

InitRepeat ==
    /\ formData \in RepeatDatasets
    /\ applicantCount = <<2>>
    /\ out = NoOutput
    /\ value = Undefined
    /\ boxCount = <<>>
    /\ boxWidth = <<>>
    /\ rows = [p \in Paths |-> <<>>]
    /\ NothingShown
    /\ HostsUnmounted
    /\ PreviewUnmounted

\* the caller turns to another dataset
LoadDataset(fd) ==
    /\ fd # formData
    /\ formData' = fd
    /\ UNCHANGED <<boxVars, applicantCount, out, sessionVars, previewVars, hostVars>>

\* renderApplicantFormHTML(formData.applicants[k - 1], k, formData) is called
RepeatRenderApplicantFormHTML(k) ==
    /\ Len(log) < MaxCalls
    /\ log' = Append(log, Call("renderApplicantFormHTML", k, formData,
                               renderApplicantFormHTML(ApplicantAt(formData, k), k, formData)))
    /\ UNCHANGED <<boxVars, formVars, blocks, previewVars, hostVars>>

\* renderApartmentFormHTML(formData) is called
RepeatRenderApartmentFormHTML ==
    /\ Len(log) < MaxCalls
    /\ log' = Append(log, Call("renderApartmentFormHTML", 0, formData,
                               renderApartmentFormHTML(formData)))
    /\ UNCHANGED <<boxVars, formVars, blocks, previewVars, hostVars>>

NextRepeat ==
    \/ \E fd \in RepeatDatasets : LoadDataset(fd)
    \/ \E k \in 1..2 : RepeatRenderApplicantFormHTML(k)
    \/ RepeatRenderApartmentFormHTML

SpecRepeat == InitRepeat /\ [][NextRepeat]_vars

-----------------------------------------------------------------------------
(* Specification of the preview page: the two fetches and the template document *)

MaxPages == 10

\* fetch(`/api/applications/${id}`).then(r => r.blob()): the fetch is rejected,
\* or there is a blob: a template of n pages, or a body that is no PDF
PdfResponses ==
    {[kind |-> "rejected", pages |-> <<>>], [kind |-> "blob", pages |-> <<>>]}
    \cup {[kind |-> "blob", pages |-> <<n>>] : n \in 1..MaxPages}

\* fetch(`/api/applications/${id}/form-data`).then(r => r.json()): rejected, a
\* body without formData (an error body), or the stored dataset and its count
DataResponses ==
    {[kind |-> "rejected", formData |-> NoFormData, applicantCount |-> <<>>],
     [kind |-> "json", formData |-> NoFormData, applicantCount |-> <<>>]}
    \cup {[kind |-> "json", formData |-> fd, applicantCount |-> c] :
             fd \in SlotDatasets, c \in ApplicantCounts}

InitPreview ==
    /\ server \in [pdf : PdfResponses, data : DataResponses]
    /\ numPages = 0
    /\ pdfUrl = <<>>
    /\ formData = NoFormData
    /\ applicantCount = <<1>>
    /\ loading = TRUE
    /\ error = <<>>
    /\ pdfDocument = "idle"
    /\ out = NoOutput
    /\ value = Undefined
    /\ boxCount = <<>>
    /\ boxWidth = <<>>
    /\ rows = [p \in Paths |-> <<>>]
    /\ NothingShown
    /\ HostsUnmounted

\* Promise.all([...]).then(([blob, data]) => { ... }); the template document is
\* mounted when pdfUrl && formData
FetchThen ==
    /\ loading
    /\ server.pdf.kind = "blob" /\ server.data.kind = "json"
    /\ pdfUrl' = <<"blob:">>
    /\ formData' = server.data.formData
    /\ applicantCount' = <<PreviewApplicantCount(server.data.applicantCount)>>
    /\ loading' = FALSE
    /\ pdfDocument' = IF HasFormData(server.data.formData) THEN "loading" ELSE "idle"
    /\ UNCHANGED <<boxVars, out, sessionVars, numPages, error, server, hostVars>>

\* .catch((err) => { setError(...); setLoading(false) })
FetchCatch ==
    /\ loading
    /\ server.pdf.kind = "rejected" \/ server.data.kind = "rejected"
    /\ error' = <<"Failed to load application data. Please try again.">>
    /\ loading' = FALSE
    /\ UNCHANGED <<boxVars, formVars, sessionVars, numPages, pdfUrl, server, pdfDocument, hostVars>>

\* onDocumentLoadSuccess({ numPages })
onDocumentLoadSuccess ==
    /\ pdfDocument = "loading"
    /\ server.pdf.pages # <<>>
    /\ numPages' = server.pdf.pages[1]
    /\ pdfDocument' = "loaded"
    /\ UNCHANGED <<boxVars, formVars, sessionVars, pdfUrl, loading, error, server, hostVars>>

\* the blob is no PDF: the document shows its error element, numPages stays 0
DocumentLoadError ==
    /\ pdfDocument = "loading"
    /\ server.pdf.pages = <<>>
    /\ pdfDocument' = "failed"
    /\ UNCHANGED <<boxVars, formVars, sessionVars, numPages, pdfUrl, loading, error, server, hostVars>>

NextPreview ==
    \/ FetchThen
    \/ FetchCatch
    \/ onDocumentLoadSuccess
    \/ DocumentLoadError

SpecPreview == InitPreview /\ [][NextPreview]_vars

-----------------------------------------------------------------------------
(* Claims about the character-box row *)

Rendered(p) == rows[p] # <<>>
RowOf(p) == rows[p][1]
CellCount == IF boxCount = <<>> THEN 20 ELSE boxCount[1]
ValueChars == IF value.def THEN value.s ELSE <<>>

\* C1: in every render path the character-box row has exactly n cells; cell i
\* holds the i-th character of the value for i up to min(len, n) and is empty
\* otherwise; an undefined value gives the all-empty row of the empty string;
\* characters past n appear nowhere.
C1_CharacterBoxRow ==
    \A p \in Paths :
        Rendered(p) =>
            /\ Len(RowOf(p).cells) = CellCount
            /\ \A i \in 1..CellCount :
                   RowOf(p).cells[i] =
                       IF i <= Len(ValueChars) THEN ValueChars[i] ELSE ""
            /\ (~value.def => RowOf(p).cells = RenderBoxes(p, Str(<<>>), boxCount, boxWidth).cells)

\* a value longer than the row has been rendered by the preview and the document backend
C1_Witness ==
    /\ Rendered("preview") /\ Rendered("doc")
    /\ Len(ValueChars) > CellCount
    /\ CellCount >= 2

\* C4: in every render path the declared total width of a row of n cells is
\* n * (cellWidth + 2 * borderWidth).
C4_DeclaredRowWidth ==
    \A p \in Paths :
        Rendered(p) =>
            /\ RowOf(p).declared
            /\ RowOf(p).totalWidth =
                   CellCount * (RowOf(p).cellWidth + 2 * RowOf(p).borderWidth)

RowGeometry(r) ==
    <<r.declared, r.totalWidth, r.cellWidth, r.cellHeight, r.borderWidth>>

\* C5: for the same call (same cell count, same box-width argument or none),
\* the preview and each document backend compute the same row width and the
\* same cell width, cell height and border width.
C5_BackendsSameGeometry ==
    \A p \in {"doc", "doc2"} :
        (Rendered("preview") /\ Rendered(p)) =>
            RowGeometry(RowOf("preview")) = RowGeometry(RowOf(p))

-----------------------------------------------------------------------------
(* Claims about the applicant block *)

Called == out.kind = "output"

\* the block a render produced: the document string, or what the preview page holds
BlockOf ==
    IF out.path = "preview"
    THEN IF out.result.kind = "formPage" THEN out.result.block ELSE Null
    ELSE out.result

HasBlock == Called /\ BlockOf.kind = "block"

\* nothing was put out: '' from the document backend, no page from the preview
Omitted ==
    /\ Called
    /\ IF out.path = "preview" THEN out.result = Null ELSE out.result = EmptyString

\* the record the render was about and its raw texts
RecordOf == formData.applicants[out.number]
HasRecord == Called /\ out.number <= Len(formData.applicants)
NameEmpty == ~RecordOf.name.def \/ RecordOf.name.s = <<>>
RawText(v) == IF v.def THEN v.s ELSE <<>>

FieldOf(block, id) ==
    LET i == CHOOSE j \in 1..Len(block.fields) : block.fields[j].id = id
    IN  block.fields[i]

\* the non-empty cells of the rows, in order
RECURSIVE StripCells(_)
StripCells(cells) ==
    IF cells = <<>> THEN <<>>
    ELSE (IF cells[1] = "" THEN <<>> ELSE <<cells[1]>>) \o StripCells(Tail(cells))

RECURSIVE ConcatRows(_)
ConcatRows(boxRows) ==
    IF boxRows = <<>> THEN <<>>
    ELSE boxRows[1].cells \o ConcatRows(Tail(boxRows))

IsPrefixOf(p, s) == Len(p) <= Len(s) /\ p = SubSeq(s, 1, Len(p))

MultiRowPrefix(id, text, r) ==
    LET shown == StripCells(ConcatRows(FieldOf(BlockOf, id).rows))
    IN  IsPrefixOf(shown, text) /\ Len(shown) <= 20 * r

\* C2: for every text, the rows of the tax-ward field (2 rows of 20) and of the
\* correspondence address (3 rows of 20), concatenated in order with the empty
\* cells stripped, are a prefix of the text of at most rows * 20 characters.
C2_MultiRowPrefix ==
    HasBlock =>
        /\ MultiRowPrefix("itWard", RawText(RecordOf.itWard), 2)
        /\ MultiRowPrefix("correspondenceAddress", RawText(RecordOf.correspondenceAddress), 3)

\* the number of fixed-size chunks of 20 characters of a text (the last may be shorter)
FixedChunkCount(text) == (Len(text) + 19) \div 20

RowEmpty(row) == \A j \in 1..Len(row.cells) : row.cells[j] = ""

\* row k of a multi-row field shows the k-th fixed-size chunk of the text, and
\* nothing when the text has no k-th chunk
MultiRowShape(id, text, r) ==
    LET boxRows == FieldOf(BlockOf, id).rows
    IN  /\ Len(boxRows) = r
        /\ \A k \in 1..r :
               /\ Len(boxRows[k].cells) = 20
               /\ (k > FixedChunkCount(text) => RowEmpty(boxRows[k]))
               /\ \A j \in 1..20 :
                      boxRows[k].cells[j] # "" =>
                          /\ (k - 1) * 20 + j <= Len(text)
                          /\ boxRows[k].cells[j] = text[(k - 1) * 20 + j]

\* C3: the multi-row fields always render exactly 2 (tax ward) and 3 (address)
\* rows of 20 cells; rows past the last chunk of the text are entirely empty,
\* and chunks past the last row appear nowhere in the output.
C3_MultiRowShape ==
    HasBlock =>
        /\ MultiRowShape("itWard", RawText(RecordOf.itWard), 2)
        /\ MultiRowShape("correspondenceAddress", RawText(RecordOf.correspondenceAddress), 3)

\* C7: a joint applicant (number 2 or 3) whose name is empty is omitted
\* entirely, by the document renderers and by the preview, whatever the
\* applicantCount hint says.
C7_EmptyNameOmitted ==
    (HasRecord /\ out.number >= 2 /\ NameEmpty) => Omitted

\* applicant 2 has an empty name, the hint says 3, and the preview reached page 6
C7_Witness ==
    /\ HasRecord /\ out.number = 2 /\ out.path = "preview"
    /\ RecordOf.name = Str(<<>>)
    /\ applicantCount = <<3>>
    /\ Omitted

\* C8: a joint applicant (number 2 or 3) whose name is not empty is rendered,
\* whatever the applicantCount hint says.
C8_NamedJointRendered ==
    (HasRecord /\ out.number >= 2 /\ ~NameEmpty) => HasBlock

\* C9: the first applicant's block is always rendered, with its heading and
\* its fields, also when the name is empty.
C9_PrimaryAlwaysRendered ==
    (HasRecord /\ out.number = 1) =>
        /\ HasBlock
        /\ BlockOf.heading.text = "SOLE OR FIRST APPLICANT(S)"
        /\ Len(BlockOf.fields) = 14

\* the first applicant has an empty name and the block was rendered
C9_Witness ==
    /\ HasRecord /\ out.number = 1 /\ NameEmpty
    /\ out.path \in {"preview", "doc"}
    /\ HasBlock

\* C10: a rendered joint applicant block (number 2 or 3) holds no signature
\* footer, whatever signatures the dataset holds.
C10_NoFooterInJointBlock ==
    (HasBlock /\ out.number >= 2) => BlockOf.footer.kind # "footer"

-----------------------------------------------------------------------------
(* Claims about the apartment and declaration block *)

\* the text a field of the block shows: its value text, or its non-empty cells
ShownText(field) ==
    IF field.shown = "text" THEN field.text ELSE StripCells(ConcatRows(field.rows))

Digits == {"0", "1", "2", "3", "4", "5", "6", "7", "8", "9"}
DigitsAndPoint(s) == SelectSeq(s, LAMBDA c : c \in Digits \cup {"."})

PriceNormalized(id, raw) ==
    LET shown == ShownText(FieldOf(BlockOf, id))
    IN  /\ \A i \in 1..Len(shown) : shown[i] \in Digits \cup {"."}
        /\ shown = Slice0(DigitsAndPoint(raw), IF out.path = "preview" THEN 15 ELSE Len(raw))

\* C6: the unit price and the total price are shown with every character that
\* is not a digit or the decimal point removed, the others kept in order.
C6_MoneyNormalized ==
    HasBlock =>
        /\ PriceNormalized("unitPrice", RawText(formData.apartment.unitPrice))
        /\ PriceNormalized("totalPrice", RawText(formData.apartment.totalPrice))

-----------------------------------------------------------------------------
(* Claims about the signature footer *)

HasSignature(i) == TruthyAtom(SignatureAt(formData, i))
HasFooter == HasBlock /\ BlockOf.footer.kind = "footer"

\* C11: in every backend the primary applicant block holds the signature
\* footer if and only if the first or the second applicant has a signature;
\* without any signature the footer is left out.
C11_FooterIffSignature ==
    (HasBlock /\ out.number = 1) =>
        (BlockOf.footer.kind = "footer" <=> (HasSignature(1) \/ HasSignature(2)))

PlaceholderCaptions == <<"Sole/First Applicant", "Second Applicant, if any">>

\* C12: a rendered signature footer holds both slots; the slot of an applicant
\* without signature shows its placeholder caption and no image, the slot of
\* an applicant with a signature shows the image.
C12_FooterBothSlots ==
    HasFooter =>
        /\ Len(BlockOf.footer.slots) = 2
        /\ \A i \in 1..2 :
               IF HasSignature(i)
               THEN BlockOf.footer.slots[i].image = <<SignatureAt(formData, i).s>>
               ELSE /\ BlockOf.footer.slots[i].image = <<>>
                    /\ BlockOf.footer.slots[i].caption = PlaceholderCaptions[i]

-----------------------------------------------------------------------------
(* Claims about the fields of the applicant block *)

StatusField == FieldOf(BlockOf, "residentialStatus")
CheckedBoxes == {i \in 1..3 : StatusField.checked[i]}
StatusValues == <<"Resident", "Non-Resident", "Foreign National of Indian Origin">>

\* C14: at most one residential-status checkbox is checked: the one whose
\* value equals the stored status, and none when the status is another value,
\* empty or absent; every render path checks the same box.
C14_OneCheckboxAtMost ==
    HasBlock =>
        /\ Len(StatusField.checked) = 3
        /\ Cardinality(CheckedBoxes) <= 1
        /\ \A i \in 1..3 :
               StatusField.checked[i] <=>
                   (RecordOf.residentialStatus.def /\ RecordOf.residentialStatus.s = StatusValues[i])

\* the second box is checked for "Non-Resident" by the preview or the document backend
C14_Witness ==
    /\ HasBlock
    /\ out.path \in {"preview", "doc"}
    /\ RecordOf.residentialStatus = Atom("Non-Resident")
    /\ CheckedBoxes = {2}

FieldOrder ==
    <<"titleName", "sonWifeDaughterOf", "nationality", "age", "dob", "profession",
      "aadhaar", "residentialStatus", "pan", "itWard", "correspondenceAddress",
      "telNo", "phone", "email">>

\* the number of box rows of each field (the checkboxes have none)
FieldRows(id) ==
    CASE id = "residentialStatus" -> 0
      [] id = "itWard" -> 2
      [] id = "correspondenceAddress" -> 3
      [] OTHER -> 1

\* the combined title and name as the first field shows it
CombinedTitleName ==
    Trim(RawText(RecordOf.title) \o <<" ">> \o RawText(RecordOf.name))

\* C16: every rendered applicant block lists its fields in the same fixed
\* order, every box row has exactly 20 cells, tax ward has 2 rows and the
\* address 3, and the first field shows the combined title and name.
C16_FieldOrder ==
    HasBlock =>
        /\ Len(BlockOf.fields) = Len(FieldOrder)
        /\ \A i \in 1..Len(FieldOrder) :
               /\ BlockOf.fields[i].id = FieldOrder[i]
               /\ Len(BlockOf.fields[i].rows) = FieldRows(FieldOrder[i])
               /\ \A k \in 1..Len(BlockOf.fields[i].rows) :
                      Len(BlockOf.fields[i].rows[k].cells) = 20
        /\ BlockOf.fields[1].rows[1].cells = BoxCells(Slice0(CombinedTitleName, 20), 20)

-----------------------------------------------------------------------------
(* Claims about the unit type *)

\* the display string of a unit type: "3 BHK" for 3bhk, "4 BHK" for 4bhk, else empty
UnitTypeText(v) ==
    IF v.def /\ v.s = "3bhk" THEN <<"3", " ", "B", "H", "K">>
    ELSE IF v.def /\ v.s = "4bhk" THEN <<"4", " ", "B", "H", "K">>
    ELSE <<>>

\* C15: the unit type is shown as "3 BHK" exactly for the value 3bhk, as
\* "4 BHK" exactly for 4bhk and as nothing for every other value, by the
\* preview and by the document backends alike.
C15_UnitTypeDisplay ==
    HasBlock =>
        ShownText(FieldOf(BlockOf, "bhkType")) = UnitTypeText(formData.apartment.bhkType)

-----------------------------------------------------------------------------
(* Claims that compare two renders of the same dataset *)

IsShown(path, pageNumber) == blocks[<<path, pageNumber>>] # <<>>
BlockAt(path, pageNumber) == blocks[<<path, pageNumber>>][1]

\* C13: in every backend that renders the apartment page, the signature footer
\* of the first applicant's block and the signature footer of the apartment
\* and declaration block are the same for the same dataset.
C13_SameFooterBothSites ==
    \A p \in Paths :
        (IsShown(p, 5) /\ IsShown(p, 8)) =>
            BlockAt(p, 5).footer = BlockAt(p, 8).footer

ApartmentTextFields ==
    {"tower", "apartmentNumber", "floor", "carpetAreaSqm", "carpetAreaSqft",
     "unitPrice", "totalPrice", "declarationDate", "declarationPlace"}

\* C17: for every dataset, each apartment and declaration field shows the same
\* text in the preview and in the document backend, whatever the length of
\* the value.
C17_SameApartmentText ==
    (IsShown("preview", 8) /\ IsShown("doc", 8)) =>
        \A id \in ApartmentTextFields :
            ShownText(FieldOf(BlockAt("preview", 8), id)) =
                ShownText(FieldOf(BlockAt("doc", 8), id))

-----------------------------------------------------------------------------
(* Claims about repeated renders *)

SameCall(a, b) == a.fn = b.fn /\ a.number = b.number /\ a.formData = b.formData

-----------------------------------------------------------------------------
(* Claims about the preview page *)

ShownPages == IF PreviewRender.kind = "page" THEN PreviewRender.pages ELSE <<>>
ItemsOfPage(pages, p) == {i \in 1..Len(pages) : pages[i].page = p}
IsFormPage(item) == item.kind = "formPage" /\ item.block.kind = "block"

\* C19: of a template of numPages pages the preview shows every page below 5
\* and above 8 as the template page; page 5 as the first applicant's block;
\* pages 6 and 7 as the second and third applicant's block or not at all,
\* never as the template page; page 8 as the apartment and declaration
\* block; and all of them in the order of the page numbers.
C19_PageSequence ==
    pdfDocument = "loaded" =>
        LET pages == ShownPages
        IN  /\ \A i \in 1..Len(pages) : \A j \in 1..Len(pages) :
                   i < j => pages[i].page < pages[j].page
            /\ \A i \in 1..Len(pages) : pages[i].page \in 1..numPages
            /\ \A p \in 1..numPages :
                   CASE p < 5 \/ p > 8 ->
                            \E i \in ItemsOfPage(pages, p) : pages[i] = PdfPage(p)
                     [] p = 5 ->
                            \E i \in ItemsOfPage(pages, p) :
                                /\ IsFormPage(pages[i])
                                /\ pages[i].block.heading.number = 1
                     [] p \in {6, 7} ->
                            \A i \in ItemsOfPage(pages, p) :
                                /\ IsFormPage(pages[i])
                                /\ pages[i].block.heading.number = p - 4
                     [] p = 8 ->
                            \E i \in ItemsOfPage(pages, p) :
                                /\ IsFormPage(pages[i])
                                /\ pages[i].block = renderApartmentForm(<<formData>>)

\* a template of nine pages or more is shown with page 6 replaced and page 7 left out
C19_Witness ==
    /\ pdfDocument = "loaded"
    /\ numPages >= 9
    /\ ItemsOfPage(ShownPages, 6) # {}
    /\ ItemsOfPage(ShownPages, 7) = {}
    /\ Len(ShownPages) = numPages - 1

\* the template could not be fetched or loaded, or is too short to hold page 8
TemplateFailed ==
    \/ server.pdf.kind = "rejected"
    \/ server.pdf.pages = <<>>
    \/ server.pdf.pages # <<>> /\ server.pdf.pages[1] < 8

\* the fetches and the load of the template have come to an end
PreviewSettled == ~loading /\ pdfDocument # "loading"

\* C20: when the form data is fetched but the template fails (or has fewer
\* than 8 pages), the preview still shows the first applicant's block and
\* the apartment and declaration block.
C20_BlocksWithoutTemplate ==
    (PreviewSettled /\ TemplateFailed
        /\ server.data.kind = "json" /\ HasFormData(server.data.formData)) =>
            LET pages == ShownPages
            IN  /\ \E i \in ItemsOfPage(pages, 5) : IsFormPage(pages[i])
                /\ \E i \in ItemsOfPage(pages, 8) : IsFormPage(pages[i])

-----------------------------------------------------------------------------
(* Claims about the cell count and the characters of a row *)

\* what a call that failed with an error leaves instead of a row
BoxError == [kind |-> "error"]

\* C21: a character-box row asked for with a cell count of zero or less fails
\* with an error and returns no markup.
C21_NonPositiveCountFails ==
    \A p \in Paths :
        (Rendered(p) /\ CellCount <= 0) => RowOf(p) = BoxError

-----------------------------------------------------------------------------
(* Specification of the renders of texts with characters outside ASCII *)

\* characters (code points) of the inputs: an ASCII letter, a letter of the
\* basic plane outside ASCII, and a character above the basic plane
AsciiLetter == "a"
BasicPlaneLetter == "U+00E9"
AstralCharacter == "U+1F600"
CodePoints == {AsciiLetter, BasicPlaneLetter, AstralCharacter}

\* the UTF-16 code units of the astral character (a surrogate pair)
HighSurrogate == "D83D"
LowSurrogate == "DE00"

\* the code units a JavaScript string holds for one character
Utf16(cp) == IF cp = AstralCharacter THEN <<HighSurrogate, LowSurrogate>> ELSE <<cp>>

\* the JavaScript string of a sequence of characters
RECURSIVE Encode(_)
Encode(cps) == IF cps = <<>> THEN <<>> ELSE Utf16(cps[1]) \o Encode(Tail(cps))

MaxCodePoints == 3

RECURSIVE CodePointSeqs(_)
CodePointSeqs(k) ==
    IF k = 0 THEN {<<>>}
    ELSE {Append(s, c) : s \in CodePointSeqs(k - 1), c \in CodePoints}

UnicodeValues == {Str(Encode(s)) : s \in UNION {CodePointSeqs(k) : k \in 0..MaxCodePoints}}

\* texts around the 20-unit chunk border with one astral character in them
ChunkTexts ==
    {Encode([i \in 1..len |-> IF i = pos THEN AstralCharacter ELSE AsciiLetter]) :
        len \in 19..22, pos \in 18..21}

UnicodeDatasets ==
    {FormDataOf(<<[SampleApplicant EXCEPT !.name = Str(<<"A">>), !.itWard = Str(s)]>>,
                BlankApartment) : s \in ChunkTexts}

InitUnicode ==
    /\ \/ /\ value \in UnicodeValues
          /\ boxCount \in {<<n>> : n \in 1..MaxBoxCount}
          /\ formData = FormDataOf(<<[SampleApplicant EXCEPT !.name = Str(<<"A">>)]>>,
                                   BlankApartment)
       \/ /\ value = Undefined
          /\ boxCount = <<>>
          /\ formData \in UnicodeDatasets
    /\ boxWidth = <<>>
    /\ applicantCount = <<1>>
    /\ rows = [p \in Paths |-> <<>>]
    /\ out = NoOutput
    /\ NothingShown
    /\ HostsUnmounted
    /\ PreviewUnmounted

NextUnicode ==
    \/ CallRenderCharacterBoxes
    \/ CallRenderCharacterBoxesHTML
    \/ CallRenderCharacterBoxesHTML2
    \/ PreviewRenderApplicantPage(5)
    \/ CallRenderApplicantFormHTML(1)
    \/ CallRenderApplicantFormHTML2(1)

SpecUnicode == InitUnicode /\ [][NextUnicode]_vars

\* the characters of a JavaScript string, as its string iterator gives them:
\* a high surrogate followed by a low surrogate is one character
RECURSIVE Characters(_)
Characters(units) ==
    IF units = <<>> THEN <<>>
    ELSE IF Len(units) >= 2 /\ units[1] = HighSurrogate /\ units[2] = LowSurrogate
         THEN <<SubSeq(units, 1, 2)>> \o Characters(SubSeq(units, 3, Len(units)))
         ELSE <<SubSeq(units, 1, 1)>> \o Characters(Tail(units))

\* what a cell shows, as a string of code units
CellText(cell) == IF cell = "" THEN <<>> ELSE <<cell>>

\* cell i of the row shows the whole i-th character of the text, for i up to
\* min(k, n), and the other cells are empty
WholeCharacters(cells, chars) ==
    \A i \in 1..Len(cells) :
        CellText(cells[i]) = IF i <= Len(chars) THEN chars[i] ELSE <<>>

\* C22: every character, also one outside ASCII or one stored as a surrogate
\* pair, takes exactly one cell: a value of k characters fills min(k, n) cells
\* of a row of n, and the rows of the tax-ward field show the text in chunks of
\* 20 characters, no character being split over two cells or two rows.
C22_OneCellPerCharacter ==
    /\ \A p \in Paths :
           Rendered(p) => WholeCharacters(RowOf(p).cells, Characters(ValueChars))
    /\ HasBlock =>
           LET boxRows == FieldOf(BlockOf, "itWard").rows
               chars == Characters(RawText(RecordOf.itWard))
           IN  \A k \in 1..Len(boxRows) :
                   WholeCharacters(boxRows[k].cells,
                                   SubSeq(chars, Min(Len(chars), (k - 1) * 20) + 1, Len(chars)))

-----------------------------------------------------------------------------
(* Specification of the PDFViewer component *)

MaxContainerWidth == 1224

\* the widths a resize observer can report for the viewer's container
ContainerWidths == {w \in 0..MaxContainerWidth : w % 102 = 0} \cup {1, 611, 613}

\* fillablePages = [5, 6, 7, 8]
FillablePages == {5, 6, 7, 8}

\* width of the page element of the dashboard and of the preview
AdminPageWidth == 612
PreviewPageWidth == 612

\* containerWidth ? Math.min(containerWidth, 612) : 612
ViewerPageWidth ==
    IF containerWidth # <<>> /\ containerWidth[1] # 0
    THEN Min(containerWidth[1], 612)
    ELSE 612

\* the pages the viewer's page loop puts out
ViewerRender(showOnlyFillable) ==
    LET pageNumbers == {n \in 1..viewerNumPages : ~showOnlyFillable \/ n \in FillablePages}
    IN  {[kind |-> "pdfPage", page |-> n, wrapperWidth |-> containerWidth,
          width |-> ViewerPageWidth] : n \in pageNumbers}

InitViewer ==
    /\ ViewerUnmounted
    /\ AdminUnmounted
    /\ ApiIdle
    /\ value = Undefined /\ boxCount = <<>> /\ boxWidth = <<>>
    /\ rows = [p \in Paths |-> <<>>]
    /\ formData = NoFormData /\ applicantCount = <<>> /\ out = NoOutput
    /\ NothingShown
    /\ PreviewUnmounted

\* onResize(entries): the resize observer reports the container's content rectangle
Viewer_onResize ==
    /\ \E entries \in {<<>>} \cup {<<w>> : w \in ContainerWidths} :
           containerWidth' = IF entries # <<>> THEN entries ELSE containerWidth
    /\ UNCHANGED <<viewerNumPages, boxVars, formVars, sessionVars, previewVars, adminVars, apiVars>>

\* onDocumentLoadSuccess({ numPages }) of the viewer
Viewer_onDocumentLoadSuccess ==
    /\ \E n \in 1..MaxPages : viewerNumPages' = n
    /\ UNCHANGED <<containerWidth, boxVars, formVars, sessionVars, previewVars, adminVars, apiVars>>

NextViewer ==
    \/ Viewer_onResize
    \/ Viewer_onDocumentLoadSuccess

SpecViewer == InitViewer /\ [][NextViewer]_vars

-----------------------------------------------------------------------------
(* Claims about the width of what the host viewers show *)

\* C23: every form block and every PDF page the host viewers show (preview
\* page, dashboard, PDFViewer) is rendered at width exactly 612, whatever
\* width was measured for the host container, also one narrower than 612.
C23_HostWidth612 ==
    /\ PreviewPageWidth = 612
    /\ AdminPageWidth = 612
    /\ CONTAINER_WIDTH = 612
    /\ \A showOnlyFillable \in BOOLEAN :
           \A page \in ViewerRender(showOnlyFillable) : page.width = 612

-----------------------------------------------------------------------------
(* Specification of the renders of the one-applicant scenario *)

\* one applicant "Asha Rao", Indian, without signature; a 3bhk unit
ScenarioDataset ==
    FormDataOf(<<[SampleApplicant EXCEPT
                     !.name = Str(<<"A", "s", "h", "a", " ", "R", "a", "o">>),
                     !.nationality = Str(<<"I", "n", "d", "i", "a", "n">>),
                     !.signature = NoAtom]>>,
               [BlankApartment EXCEPT !.bhkType = Atom("3bhk")])

InitScenario ==
    /\ formData = ScenarioDataset
    /\ applicantCount \in ApplicantCounts
    /\ out = NoOutput
    /\ value = Undefined
    /\ boxCount = <<>>
    /\ boxWidth = <<>>
    /\ rows = [p \in Paths |-> <<>>]
    /\ NothingShown
    /\ HostsUnmounted
    /\ PreviewUnmounted

\* pages 5 and 8 of each render path, and the pages of the joint applicants
NextScenario ==
    \/ \E n \in ComparedPages : PreviewShowPage(n)
    \/ \E n \in ComparedPages : RenderDocumentPage(n)
    \/ \E n \in ComparedPages : RenderDocumentPage2(n)
    \/ \E n \in 6..7 : PreviewRenderApplicantPage(n)
    \/ \E k \in 2..3 : CallRenderApplicantFormHTML(k)
    \/ \E k \in 2..3 : CallRenderApplicantFormHTML2(k)

SpecScenario == InitScenario /\ [][NextScenario]_vars

-----------------------------------------------------------------------------
(* Claims about the one-applicant scenario and the heading *)

\* the footer shows both slots without image, each with its placeholder caption
BothPlaceholders(footer) ==
    /\ footer.kind = "footer"
    /\ Len(footer.slots) = 2
    /\ \A i \in 1..2 :
           /\ footer.slots[i].image = <<>>
           /\ footer.slots[i].caption = PlaceholderCaptions[i]

\* C24: for the dataset with the single applicant "Asha Rao" (Indian), no
\* signature and unit type 3bhk, every render path puts out exactly one
\* applicant block, headed "SOLE OR FIRST APPLICANT(S)" and carrying a footer
\* with the two placeholder captions, and an apartment block showing "3 BHK".
C24_OneApplicantScenario ==
    /\ \A p \in Paths :
           /\ IsShown(p, 5) =>
                  /\ BlockAt(p, 5).kind = "block"
                  /\ BlockAt(p, 5).heading.text = "SOLE OR FIRST APPLICANT(S)"
                  /\ BothPlaceholders(BlockAt(p, 5).footer)
           /\ IsShown(p, 8) =>
                  /\ BlockAt(p, 8).kind = "block"
                  /\ ShownText(FieldOf(BlockAt(p, 8), "bhkType")) = Text3BHK
    /\ (Called /\ out.number >= 2) => Omitted

\* the heading of the block of the slot at `index` (counted from 0)
SlotHeadingText(index) == IF index = 0 THEN "SOLE OR FIRST APPLICANT(S)" ELSE "JOINT APPLICANT"
SlotHeadingJoint(index) == IF index = 0 THEN 0 ELSE index

\* C25: a rendered applicant block of the slot at index i (applicantNumber
\* i + 1) is headed "SOLE OR FIRST APPLICANT(S)" exactly when i = 0 and
\* "JOINT APPLICANT i" when i is 1 or 2, and the preview and both document
\* variants produce this same heading.
C25_HeadingBySlot ==
    HasBlock =>
        LET index == out.number - 1
        IN  /\ BlockOf.heading.number = index + 1
            /\ BlockOf.heading.text = SlotHeadingText(index)
            /\ BlockOf.heading.joint = SlotHeadingJoint(index)
            /\ (BlockOf.heading.text = "SOLE OR FIRST APPLICANT(S)" <=> index = 0)

C25_Witness ==
    /\ HasBlock
    /\ out.path = "doc2"
    /\ out.number = 3
    /\ BlockOf.heading.text = "JOINT APPLICANT"
    /\ BlockOf.heading.joint = 2

-----------------------------------------------------------------------------
(* Claims about the width of a field row *)

\* the rows of character boxes of all fields of a block, in order
RECURSIVE RowsOfFields(_)
RowsOfFields(fields) ==
    IF fields = <<>> THEN <<>> ELSE fields[1].rows \o RowsOfFields(Tail(fields))

\* C26: with the layout constants of the applicant form (container 612,
\* padding 20, photo 130, gap 16, label 155, field gap 10) and the cell width
\* and border the block passes to the box renderer, the declared width of a
\* row of 20 cells is at most the width left for the boxes, 261 px.
C26_RowFitsFieldsArea ==
    /\ AVAILABLE_BOX_WIDTH = 261
    /\ (HasBlock /\ out.path \in {"preview", "doc"}) =>
           LET boxRows == RowsOfFields(BlockOf.fields)
           IN  \A i \in 1..Len(boxRows) :
                   (boxRows[i].declared /\ Len(boxRows[i].cells) = 20) =>
                       boxRows[i].totalWidth <= HalfPx(AVAILABLE_BOX_WIDTH)

-----------------------------------------------------------------------------
(* Specification of the admin dashboard: View clicks, PDF fetches, page buttons *)

MaxClicks == 3
MaxStoredPages == 3

\* the applications of the list
Applications == {"app1", "app2"}

Max(a, b) == IF a > b THEN a ELSE b

\* URL.createObjectURL(blob): a new URL for the blob of every response
ObjectURL(app, click) == [app |-> app, click |-> click]

InitAdmin ==
    /\ AdminUnmounted
    /\ db \in [Applications -> [pdfPages : 1..MaxStoredPages]]
    /\ calls = <<>>
    /\ ViewerUnmounted
    /\ value = Undefined /\ boxCount = <<>> /\ boxWidth = <<>>
    /\ rows = [p \in Paths |-> <<>>]
    /\ formData = NoFormData /\ applicantCount = <<>> /\ out = NoOutput
    /\ NothingShown
    /\ PreviewUnmounted

\* handleViewApplication(id) up to its first await: the selection is set and
\* the fetch of the PDF is sent
handleViewApplication(id) ==
    /\ Len(fetches) < MaxClicks
    /\ selectedApplication' = <<id>>
    /\ fetches' = Append(fetches, [app |-> id, state |-> "pending"])
    /\ UNCHANGED <<adminPdfUrl, adminNumPages, adminPageNumber, adminDocument,
                   boxVars, formVars, sessionVars, previewVars, viewerVars, apiVars>>

\* handleViewApplication resumes with response.ok: setPdfUrl(url), setPageNumber(1);
\* the document element starts to load the new file
ViewResponseOk(i) ==
    /\ fetches[i].state = "pending"
    /\ fetches' = [fetches EXCEPT ![i].state = "ok"]
    /\ adminPdfUrl' = <<ObjectURL(fetches[i].app, i)>>
    /\ adminPageNumber' = 1
    /\ adminDocument' = [file |-> <<ObjectURL(fetches[i].app, i)>>, state |-> "loading"]
    /\ UNCHANGED <<selectedApplication, adminNumPages,
                   boxVars, formVars, sessionVars, previewVars, viewerVars, apiVars>>

\* handleViewApplication resumes with a response that is not ok, or the fetch
\* throws: an alert, no state is set
ViewResponseFailed(i) ==
    /\ fetches[i].state = "pending"
    /\ fetches' = [fetches EXCEPT ![i].state = "failed"]
    /\ UNCHANGED <<selectedApplication, adminPdfUrl, adminNumPages, adminPageNumber,
                   adminDocument,
                   boxVars, formVars, sessionVars, previewVars, viewerVars, apiVars>>

\* the document element finished loading its file: onDocumentLoadSuccess({ numPages })
Admin_onDocumentLoadSuccess ==
    /\ adminDocument.state = "loading"
    /\ adminDocument' = [adminDocument EXCEPT !.state = "loaded"]
    /\ adminNumPages' = db[adminDocument.file[1].app].pdfPages
    /\ UNCHANGED <<selectedApplication, adminPdfUrl, adminPageNumber, fetches,
                   boxVars, formVars, sessionVars, previewVars, viewerVars, apiVars>>

\* the document element could not load its file; the dashboard has no handler for it
Admin_DocumentLoadError ==
    /\ adminDocument.state = "loading"
    /\ adminDocument' = [adminDocument EXCEPT !.state = "failed"]
    /\ UNCHANGED <<selectedApplication, adminPdfUrl, adminNumPages, adminPageNumber, fetches,
                   boxVars, formVars, sessionVars, previewVars, viewerVars, apiVars>>

\* the viewer with its buttons is rendered: !pdfUrl is false
AdminViewerShown == adminPdfUrl # <<>>

\* Previous, disabled={pageNumber <= 1}: setPageNumber(prev => Math.max(1, prev - 1))
ClickPrevious ==
    /\ AdminViewerShown
    /\ ~(adminPageNumber <= 1)
    /\ adminPageNumber' = Max(1, adminPageNumber - 1)
    /\ UNCHANGED <<selectedApplication, adminPdfUrl, adminNumPages, fetches, adminDocument,
                   boxVars, formVars, sessionVars, previewVars, viewerVars, apiVars>>

\* Next, disabled={pageNumber >= numPages}: setPageNumber(prev => Math.min(numPages, prev + 1))
ClickNext ==
    /\ AdminViewerShown
    /\ ~(adminPageNumber >= adminNumPages)
    /\ adminPageNumber' = Min(adminNumPages, adminPageNumber + 1)
    /\ UNCHANGED <<selectedApplication, adminPdfUrl, adminNumPages, fetches, adminDocument,
                   boxVars, formVars, sessionVars, previewVars, viewerVars, apiVars>>

NextAdmin ==
    \/ \E id \in Applications : handleViewApplication(id)
    \/ \E i \in 1..Len(fetches) : ViewResponseOk(i)
    \/ \E i \in 1..Len(fetches) : ViewResponseFailed(i)
    \/ Admin_onDocumentLoadSuccess
    \/ Admin_DocumentLoadError
    \/ ClickPrevious
    \/ ClickNext

SpecAdmin == InitAdmin /\ [][NextAdmin]_vars

-----------------------------------------------------------------------------
(* Claims about the admin dashboard *)

NoFetchPending == \A i \in 1..Len(fetches) : fetches[i].state # "pending"
AllFetchesOk == \A i \in 1..Len(fetches) : fetches[i].state = "ok"

\* C27: for every sequence of View clicks and every order in which the PDF
\* fetches complete, once no fetch is pending the PDF shown is the one of the
\* application clicked last; a late response to an earlier click never
\* replaces it.
C27_LastClickShown ==
    (Len(fetches) > 0 /\ NoFetchPending /\ AllFetchesOk) =>
        /\ adminPdfUrl # <<>>
        /\ adminPdfUrl[1].app = selectedApplication[1]

\* the document shown has reported its page count
PageCountReported == adminDocument.state = "loaded"

\* C28: after any interleaving of View clicks, fetch completions, document
\* loads and clicks on the enabled Previous and Next buttons, the page number
\* is at least 1 and, once the document shown has reported its page count, at
\* most that page count.
C28_PageNumberInRange ==
    /\ adminPageNumber >= 1
    /\ PageCountReported => adminPageNumber <= db[adminDocument.file[1].app].pdfPages

-----------------------------------------------------------------------------
(* Claims about the fetch state of the preview page *)

\* the form-data endpoint answered 404 or 500: a JSON body { error } without formData
ErrorAnswer == server.data.kind = "json" /\ ~HasFormData(server.data.formData)

ErrorSet == error # <<>>

\* C29: once both fetches of the preview's mount effect have settled, loading
\* is false and exactly one of "error set" and "formData non-null" holds; a
\* 404 or 500 answer of the form-data endpoint ends in the error state.
C29_ErrorOrFormData ==
    ~loading =>
        /\ ErrorSet # HasFormData(formData)
        /\ ErrorAnswer => ErrorSet

-----------------------------------------------------------------------------
(* Specification of the form-data route: GET /api/applications/[id]/form-data *)

MaxJsonTokens == 3
MaxRequests == 2

\* the ids a request can carry; only the first can have a record
RequestIds == {"id1", "id2"}
StoredIds == {"id1"}

\* the stored formData string, as the tokens of a small JSON grammar:
\*   value ::= null | { } | [ ] | [ value ]
JsonTokens == {"null", "{", "}", "[", "]"}

RECURSIVE TokenSeqs(_)
TokenSeqs(k) ==
    IF k = 0 THEN {<<>>}
    ELSE {Append(s, t) : s \in TokenSeqs(k - 1), t \in JsonTokens}

StoredTexts == UNION {TokenSeqs(k) : k \in 0..MaxJsonTokens}

\* JSON.parse(text): the value, or a SyntaxError
JsonNull == [kind |-> "null"]
JsonObject == [kind |-> "object"]
JsonArray(items) == [kind |-> "array", items |-> items]
Parsed(v) == [ok |-> TRUE, value |-> v]
SyntaxError == [ok |-> FALSE, value |-> JsonNull]

RECURSIVE JSONParse(_)
JSONParse(text) ==
    IF text = <<"null">> THEN Parsed(JsonNull)
    ELSE IF text = <<"{", "}">> THEN Parsed(JsonObject)
    ELSE IF Len(text) >= 2 /\ text[1] = "[" /\ text[Len(text)] = "]"
         THEN IF Len(text) = 2 THEN Parsed(JsonArray(<<>>))
              ELSE LET inner == JSONParse(SubSeq(text, 2, Len(text) - 1))
                   IN  IF inner.ok THEN Parsed(JsonArray(<<inner.value>>)) ELSE SyntaxError
         ELSE SyntaxError

\* a stored record: formData (String), applicantCount (Number), bhkType (String, optional)
StoredRecords ==
    {[formData |-> t, applicantCount |-> 1, bhkType |-> NoAtom] : t \in StoredTexts}
    \cup {[formData |-> t, applicantCount |-> 2, bhkType |-> Atom("3bhk")] : t \in StoredTexts}

\* NextResponse.json(body, { status })
Response(status, body) == [status |-> status, body |-> body]
NotFound == Response(404, [error |-> "Application not found"])
ServerError == Response(500, [error |-> "Failed to fetch form data"])

\* Application.findById(id).select('formData applicantCount bhkType').lean():
\* <<>> (null) when there is no record
FindById(store, id) == IF id \in DOMAIN store THEN <<store[id]>> ELSE <<>>

\* mutant: a missing record is answered like a failure
RouteAnswer_notFoundAsFailure(store, id, connected, readDone) ==
    IF ~connected THEN [reads |-> 0, responses |-> <<ServerError>>]
    ELSE IF ~readDone THEN [reads |-> 1, responses |-> <<ServerError>>]
    ELSE LET application == FindById(store, id)
         IN  IF application = <<>> THEN [reads |-> 1, responses |-> <<ServerError>>]
             ELSE LET parsed == JSONParse(application[1].formData)
                  IN  IF ~parsed.ok THEN [reads |-> 1, responses |-> <<ServerError>>]
                      ELSE [reads |-> 1,
                            responses |->
                                <<Response(200, [formData |-> parsed.value,
                                                 applicantCount |-> application[1].applicantCount,
                                                 bhkType |-> application[1].bhkType])>>]

\* the body of GET: the reads it performs and the responses it returns, when
\* connectDB() resolves or not (connected) and the query resolves or not (readDone)
RouteAnswer(store, id, connected, readDone) ==
    IF ~connected THEN [reads |-> 0, responses |-> <<ServerError>>]
    ELSE IF ~readDone THEN [reads |-> 1, responses |-> <<ServerError>>]
    ELSE LET application == FindById(store, id)
         IN  IF application = <<>> THEN [reads |-> 1, responses |-> <<NotFound>>]
             ELSE LET parsed == JSONParse(application[1].formData)
                  IN  IF ~parsed.ok THEN [reads |-> 1, responses |-> <<ServerError>>]
                      ELSE [reads |-> 1,
                            responses |->
                                <<Response(200, [formData |-> parsed.value,
                                                 applicantCount |-> application[1].applicantCount,
                                                 bhkType |-> application[1].bhkType])>>]

InitApi ==
    /\ db \in {<<>>} \cup [StoredIds -> StoredRecords]
    /\ calls = <<>>
    /\ ViewerUnmounted
    /\ AdminUnmounted
    /\ value = Undefined /\ boxCount = <<>> /\ boxWidth = <<>>
    /\ rows = [p \in Paths |-> <<>>]
    /\ formData = NoFormData /\ applicantCount = <<>> /\ out = NoOutput
    /\ NothingShown
    /\ PreviewUnmounted

\* GET(request, { params }): one call of the route handler
GET(id, connected, readDone) ==
    /\ Len(calls) < MaxRequests
    /\ calls' = Append(calls, [id |-> id, connected |-> connected, readDone |-> readDone,
                               answer |-> RouteAnswer(db, id, connected, readDone)])
    /\ db' = db
    /\ UNCHANGED <<boxVars, formVars, sessionVars, previewVars, viewerVars, adminVars>>

\* without connection the query is never sent
NextApi ==
    \E id \in RequestIds, connected \in BOOLEAN :
        \E readDone \in (IF connected THEN BOOLEAN ELSE {FALSE}) :
            GET(id, connected, readDone)

SpecApi == InitApi /\ [][NextApi]_vars

-----------------------------------------------------------------------------
(* Claims about the form-data route *)

HasRecordFor(id) == id \in DOMAIN db

\* the connection, the read or the parse of the stored formData failed
CallFailed(c) ==
    \/ ~c.connected
    \/ ~c.readDone
    \/ HasRecordFor(c.id) /\ ~JSONParse(db[c.id].formData).ok

\* one call read at most once and once when connected, and gave one response:
\* 500 on a failure, else 404 without record, else 200 with the parsed
\* formData and the stored applicantCount and bhkType
CallAnswered(c) ==
    /\ c.answer.reads = (IF c.connected THEN 1 ELSE 0)
    /\ Len(c.answer.responses) = 1
    /\ LET r == c.answer.responses[1]
       IN  /\ CallFailed(c) => r = ServerError
           /\ (~CallFailed(c) /\ ~HasRecordFor(c.id)) => r = NotFound
           /\ r.status = 404 => ~HasRecordFor(c.id)
           /\ (~CallFailed(c) /\ HasRecordFor(c.id)) =>
                  /\ r.status = 200
                  /\ r.body.formData = JSONParse(db[c.id].formData).value
                  /\ r.body.applicantCount = db[c.id].applicantCount
                  /\ r.body.bhkType = db[c.id].bhkType

\* C30: every GET of the form-data route reads once and responds exactly once:
\* 404 exactly when no record exists for the id (and nothing failed), 500 when
\* the connection, the read or the JSON.parse of the stored formData fails,
\* else 200 with the parsed formData and the stored applicantCount and
\* bhkType; no call modifies the stored record.
C30_RouteAnswers ==
    /\ [](\A i \in 1..Len(calls) : CallAnswered(calls[i]))
    /\ [][db' = db]_vars

C30_Witness ==
    /\ Len(calls) = 2
    /\ calls[1].answer.responses[1].status = 200
    /\ calls[1].answer.responses[1].body.formData = JsonArray(<<JsonNull>>)
    /\ calls[2].answer.responses[1] = NotFound

=============================================================================
